---- MODULE Spec2Model ----
(***************************************************************************)
(* Model of miniapps/mhd/imResistiveMHDOperatorp.hpp: the explicit         *)
(* right-hand side ResistiveMHDOperator::Mult with its set-up calls, the   *)
(* backward-Euler entry point ImplicitSolve and the residual               *)
(* ReducedSystemOperator::Mult.                                            *)
(*                                                                         *)
(* Vectors are functions Dofs -> rationals; a rational is a pair <<n, d>>  *)
(* in lowest terms with d > 0, so that the divisions by dt and by the mass *)
(* matrix are exact.  A block vector is a record [phi, psi, w] (the three  *)
(* contiguous sub-vectors at offsets 0, sc, 2*sc).                         *)
(***************************************************************************)
EXTENDS Integers, FiniteSets, Sequences, TLC

\* ------------------------------------------------------------------ bounds
NDofs == 2
MaxVal == 1
MaxDt == 2

Dofs == 1..NDofs

\* --------------------------------------------------------------- rationals
Abs(a) == IF a < 0 THEN -a ELSE a

RECURSIVE GCD(_, _)
GCD(a, b) == IF b = 0 THEN a ELSE GCD(b, a % b)

Rat(n, d) ==
  IF d = 1 THEN <<n, 1>>
  ELSE LET s == IF d < 0 THEN -1 ELSE 1
           g == GCD(Abs(n), Abs(d))
       IN  <<(s * n) \div g, (s * d) \div g>>

R(i) == <<i, 1>>
RAdd(p, q) == Rat(p[1] * q[2] + q[1] * p[2], p[2] * q[2])
RNeg(p) == <<-p[1], p[2]>>
RSub(p, q) == RAdd(p, RNeg(q))
RMul(p, q) == Rat(p[1] * q[1], p[2] * q[2])
RDiv(p, q) == Rat(p[1] * q[2], p[2] * q[1])

\* The sum of f[1] .. f[n].
RECURSIVE RSum(_, _)
RSum(f, n) == IF n = 0 THEN R(0) ELSE RAdd(RSum(f, n - 1), f[n])

\* ----------------------------------------------------------------- vectors
\* A vector over Dofs = 1..NDofs, held as a tuple of its entries.
Vec(f) == SubSeq(f, 1, NDofs)
ZeroVec == Vec([i \in Dofs |-> R(0)])
VAdd(u, v) == Vec([i \in Dofs |-> RAdd(u[i], v[i])])
VSub(u, v) == Vec([i \in Dofs |-> RSub(u[i], v[i])])
VNeg(v) == Vec([i \in Dofs |-> RNeg(v[i])])
VDiv(v, c) == Vec([i \in Dofs |-> RDiv(v[i], c)])
SetSubVector(v, dofs, c) == Vec([i \in Dofs |-> IF i \in dofs THEN c ELSE v[i]])
MatVec(A, v) ==
  Vec([i \in Dofs |-> RSum([c \in Dofs |-> RMul(A[i][c], v[c])], NDofs)])
TrueAddMult(A, x, y) == VAdd(y, MatVec(A, x))
Mat(A) == Vec([i \in Dofs |-> Vec(A[i])])

\* The nodal inputs: the zero field and the field MaxVal*i over the dofs i.
FieldInputs == {Vec([i \in Dofs |-> R(a * i)]) : a \in {0, MaxVal}}
StateVecs == [phi : FieldInputs, psi : FieldInputs, w : FieldInputs]

\* ------------------------------------------------- assembled bilinear forms
\* Mass form (lumped), stiffness form, stiffness minus boundary flux.
Mform == Mat([i \in Dofs |-> [c \in Dofs |-> IF i = c THEN R(i + 1) ELSE R(0)]])
Kform ==
  Mat([i \in Dofs |-> [c \in Dofs |->
     IF i = c THEN R(2) ELSE IF Abs(i - c) = 1 THEN R(-1) ELSE R(0)]])
Bform ==
  Mat([i \in Dofs |-> [c \in Dofs |->
     IF i = 1 /\ c = 1 THEN R(1) ELSE IF i = 1 /\ c = 2 THEN R(-1) ELSE R(0)]])
KBform == Mat([i \in Dofs |-> [c \in Dofs |-> RSub(Kform[i][c], Bform[i][c])]])
DiffForm(coeff) ==
  Mat([i \in Dofs |-> [c \in Dofs |-> RMul(R(coeff), Kform[i][c])]])
\* Convection form whose velocity is derived from the field f; linear in f.
Conv(f) == Mat([i \in Dofs |-> [c \in Dofs |-> RAdd(f[i], RMul(R(2), f[c]))]])

\* FormSystemMatrix: essential rows and columns eliminated, one on the diagonal.
FormSystemMatrix(A, ess) ==
  Mat([i \in Dofs |-> [c \in Dofs |->
     IF i \in ess \/ c \in ess THEN (IF i = c THEN R(1) ELSE R(0)) ELSE A[i][c]]])
\* FormLinearSystem: X carries x on the essential dofs and zero elsewhere, B is
\* b with the eliminated columns moved to the right and x on the essential rows.
FormLinearSystem(A, ess, x, b) ==
  [X |-> Vec([i \in Dofs |-> IF i \in ess THEN x[i] ELSE R(0)]),
   B |-> Vec([i \in Dofs |->
            IF i \in ess THEN x[i]
            ELSE RSub(b[i], RSum([e \in Dofs |->
                        IF e \in ess THEN RMul(A[i][e], x[e]) ELSE R(0)], NDofs))])]
\* A converged Krylov solve with a diagonal system matrix (x0: initial guess).
CGSolve(A, b, x0) == Vec([i \in Dofs |-> RDiv(b[i], A[i][i])])

\* ------------------------------------------------------------------ state
NULL == <<>>
Ptr(x) == <<x>>
Deref(p) == p[1]

VARIABLES
  ess_tdof_list,  \* essential true dofs, fixed at construction
  viscosity,      \* ResistiveMHDOperator::viscosity
  resistivity,    \* ResistiveMHDOperator::resistivity
  Nv,             \* ResistiveMHDOperator::Nv: NULL or Ptr([coef |-> field])
  Nb,             \* ResistiveMHDOperator::Nb
  E0Vec,          \* ResistiveMHDOperator::E0Vec: NULL or Ptr(vector)
  E0VecOld,       \* the vector E0Vec pointed to before the last SetRHSEfield
                  \* (line 219 overwrites the pointer, the vector stays on
                  \* the heap): NULL or Ptr(vector)
  j,              \* ResistiveMHDOperator::j, the stored current field
  live,           \* heap: the ParBilinearForm objects created for Nv and
                  \* for Nb and not deleted, [Nv |-> n, Nb |-> n]
  useAMG,         \* ResistiveMHDOperator::useAMG
  K_amg,          \* ResistiveMHDOperator::K_amg: NULL or Ptr("HypreBoomerAMG")
  hypre,          \* heap and call history of K_amg: [released: times the
                  \* object was deleted, usedAfterRelease, destroyCalls:
                  \* DestroyHypre calls, solvesAfterDestroy: UpdatePhi solves
                  \* after a DestroyHypre]
  gfT,            \* the true-vector gf references: NULL or Ptr(psi block of
                  \* the driver's vector, as it is now)
  rDSl,           \* ReducedSystemOperator::DSl: NULL or Ptr(coefficient)
  rDRe,           \* ReducedSystemOperator::DRe: NULL or Ptr(coefficient)
  rE0Vec,         \* ReducedSystemOperator::E0Vec: NULL or Ptr(vector)
  j0,             \* ReducedSystemOperator::j0: NULL or Ptr("j")
  rs_dt,          \* ReducedSystemOperator::dt
  rs_x,           \* ReducedSystemOperator::phi, psi, w: NULL or Ptr of the
                  \* start-of-step views [phi, psi, w]
  rNv,            \* ReducedSystemOperator::Nv: NULL, WILD or Ptr([coef, wild])
  rNb,            \* ReducedSystemOperator::Nb
  solve,          \* the ImplicitSolve call in progress: NULL or
                  \* Ptr([dt, x, calls]), calls the Newton solves it started
  proc,           \* "running", "crashed" (undefined behaviour ended the
                  \* process) or "aborted" (mfem_error)
  ret             \* the last call and what it did

opVars == <<Nv, Nb, E0Vec, E0VecOld, j, gfT>>
cfgVars == <<ess_tdof_list, viscosity, resistivity>>
rsCfgVars == <<rDSl, rDRe, rE0Vec>>
lifeVars == <<live, useAMG, K_amg, hypre>>
rsVars == <<rDSl, rDRe, rE0Vec, j0, rs_dt, rs_x, rNv, rNb, solve>>
vars ==
  <<ess_tdof_list, viscosity, resistivity, Nv, Nb, E0Vec, E0VecOld, j, gfT,
    live, useAMG, K_amg, hypre,
    rDSl, rDRe, rE0Vec, j0, rs_dt, rs_x, rNv, rNb, solve, proc, ret>>

Coeffs == {0, 1}
EssChoices == {{}, {1}}
\* What an output vector nobody computed may hold.
DvInputs == {[phi |-> f, psi |-> f, w |-> f] : f \in FieldInputs}

Return(op, status, out) == [op |-> op, status |-> status, out |-> out]
\* The operator is called from one thread: a call starts when the process runs
\* and the caller has taken the output of the previous call.
Pending == ret.op \in {"Mult", "ReducedMult", "ImplicitSolve"}
Idle == proc = "running" /\ ~Pending /\ solve = NULL

\* ------------------------------------------- ResistiveMHDOperator: set-up
\* Variant: the algebraic-multigrid path is switched on.
UseAMGOn == TRUE

\* 145, 172: useAMG(false); useAMG=false.
UseAMGInit == FALSE

\* 143-147, 172-182: no Nv and no Nb yet; K_amg is created only if (useAMG).
ConstructedHeap ==
  /\ live = [Nv |-> 0, Nb |-> 0]
  /\ useAMG = UseAMGInit
  /\ K_amg = IF UseAMGInit THEN Ptr("HypreBoomerAMG") ELSE NULL
  /\ hypre = [released |-> 0, usedAfterRelease |-> FALSE,
              destroyCalls |-> 0, solvesAfterDestroy |-> 0]


\* The constructor: Nv, Nb, E0Vec null; gf default-constructed (no space, no
\* true-vector); j allocated on the space, its data not initialised.
Init ==
  /\ ess_tdof_list \in EssChoices
  /\ viscosity \in Coeffs
  /\ resistivity \in Coeffs
  /\ Nv = NULL
  /\ Nb = NULL
  /\ E0Vec = NULL
  /\ E0VecOld = NULL
  /\ j \in FieldInputs
  /\ gfT = NULL
  /\ ConstructedHeap
  /\ proc = "running"
  /\ ret = Return("ctor", "ok", <<>>)
  \* reduced_oper is not constructed (210: TODO define reducedSystem)
  /\ rDSl = NULL /\ rDRe = NULL /\ rE0Vec = NULL /\ j0 = NULL
  /\ rs_dt = 0 /\ rs_x = NULL /\ rNv = NULL /\ rNb = NULL /\ solve = NULL

\* delete Nv; Nv = new ParBilinearForm with the convection integrator of gf.
NewConvection(old, gf) == Ptr([coef |-> gf])

\* Variant: the previous instance is not released before the new one is made.
LiveAfterAssembleLeaked(old, n) == n + 1

\* 328-329, 338-339: delete of a null pointer releases nothing; new adds one.
LiveAfterAssemble(old, n) == (IF old = NULL THEN n ELSE n - 1) + 1

assembleNv ==
  \E gf \in FieldInputs :
    /\ Idle
    /\ Nv' = NewConvection(Nv, gf)
    /\ live' = [live EXCEPT !.Nv = LiveAfterAssemble(Nv, @)]
    /\ ret' = Return("assembleNv", "ok", <<>>)
    /\ UNCHANGED <<cfgVars, rsVars, useAMG, K_amg, hypre,
                   Nb, E0Vec, E0VecOld, j, gfT, proc>>

assembleNb ==
  \E gf \in FieldInputs :
    /\ Idle
    /\ Nb' = NewConvection(Nb, gf)
    /\ live' = [live EXCEPT !.Nb = LiveAfterAssemble(Nb, @)]
    /\ ret' = Return("assembleNb", "ok", <<>>)
    /\ UNCHANGED <<cfgVars, rsVars, useAMG, K_amg, hypre,
                   Nv, E0Vec, E0VecOld, j, gfT, proc>>

\* gf.MakeTRef(&fespace, vx, sc): gf's true-vector is a view of vx's psi block.
BindingGF ==
  \E vx \in StateVecs :
    /\ Idle
    /\ gfT' = Ptr(vx.psi)
    /\ ret' = Return("BindingGF", "ok", <<>>)
    /\ UNCHANGED <<cfgVars, lifeVars, rsVars, Nv, Nb, E0Vec, E0VecOld, j, proc>>

\* The driver overwrites, in place, the psi block of the vector gf is bound to.
DriverWrite ==
  \E f \in FieldInputs :
    /\ Idle
    /\ gfT # NULL
    /\ gfT' = Ptr(f)
    /\ ret' = Return("DriverWrite", "ok", <<>>)
    /\ UNCHANGED <<cfgVars, lifeVars, rsVars, Nv, Nb, E0Vec, E0VecOld, j, proc>>

\* Variant: the new forcing is added to the one already assembled.
NewForcingAccumulated(old, Efield) ==
  IF old = NULL THEN Efield ELSE VAdd(Deref(old), Efield)

\* 215-219: E0 is deleted and rebuilt from Efield alone; E0Vec is the vector
\* its ParallelAssemble() allocates.
NewForcing(old, Efield) == Efield

\* 213-220.  The vector E0Vec pointed to is not deleted.
SetRHSEfield ==
  \E Efield \in FieldInputs :
    /\ Idle
    /\ E0Vec' = Ptr(NewForcing(E0Vec, Efield))
    /\ E0VecOld' = E0Vec
    /\ ret' = Return("SetRHSEfield", "ok", [Efield |-> Efield])
    /\ UNCHANGED <<cfgVars, lifeVars, rsVars, Nv, Nb, j, gfT, proc>>

SetInitialJ ==
  \E initJ \in FieldInputs :
    /\ Idle
    /\ j' = initJ
    /\ ret' = Return("SetInitialJ", "ok", <<>>)
    /\ UNCHANGED <<cfgVars, lifeVars, rsVars, Nv, Nb, E0Vec, E0VecOld, gfT, proc>>

\* --------------------------------------- ResistiveMHDOperator::Mult (230-304)
Mmat == FormSystemMatrix(Mform, ess_tdof_list)
Kmat == FormSystemMatrix(Kform, ess_tdof_list)

\* line 271: gf.SetFromTrueVector() copies the true-vector gf was bound to; this
\* is the psi the current is recovered from (the argument vx is not consulted).
GfPsi(ref, vx) == Deref(ref)

\* lines 273-278: zFull = -KB*gf; boundary values of jj; J = M^-1 Z.
RecoverCurrent(psiGf, jj, ess) ==
  LET zFull == VNeg(MatVec(KBform, psiGf))
      sys == FormLinearSystem(Mform, ess, jj, zFull)
  IN  CGSolve(FormSystemMatrix(Mform, ess), sys.B, sys.X)

\* Variant: the recovered current is written back into the member j.
JAfterMultStored(jOld, J) == J

\* J and Z are locals of Mult and RecoverFEMSolution is not called: the member j
\* keeps its value.
JAfterMult(jOld, J) == jOld

\* The convection operators Mult applies are the members Nv and Nb as they are.
MultNv(nvp, vx) == Deref(nvp).coef
MultNb(nbp, vx) == Deref(nbp).coef

\* Variant: the diffusion form is applied whatever its coefficient is.
AppliesDiffusionAlways(coeff) == TRUE

\* 283, 295: if (resistivity != 0.0), if (viscosity != 0.0).
AppliesDiffusion(coeff) == coeff # 0

\* lines 281-290: z = -(Nv*psi [+ DSl*psi] [+ E0Vec]), essential rows zeroed.
FluxRHS(nv, psi, resi, e0, ess) ==
  LET z1 == TrueAddMult(Conv(nv), psi, ZeroVec)
      z2 == IF AppliesDiffusion(resi)
            THEN TrueAddMult(DiffForm(resi), psi, z1) ELSE z1
      z3 == IF e0 # NULL THEN VAdd(z2, Deref(e0)) ELSE z2
  IN  SetSubVector(VNeg(z3), ess, R(0))

\* lines 293-301: z = -(Nv*w [+ DRe*w]) + Nb*J, essential rows zeroed.
VorticityRHS(nv, nb, w, J, visc, ess) ==
  LET z1 == TrueAddMult(Conv(nv), w, ZeroVec)
      z2 == IF AppliesDiffusion(visc)
            THEN TrueAddMult(DiffForm(visc), w, z1) ELSE z1
      z3 == TrueAddMult(Conv(nb), J, VNeg(z2))
  IN  SetSubVector(z3, ess, R(0))

\* The first null pointer Mult dereferences, "none" when there is none: gf has
\* no space before BindingGF (271), Nv at 282, Nb at 300.
MultNullDeref ==
  IF gfT = NULL THEN "gf"
  ELSE IF Nv = NULL THEN "Nv"
  ELSE IF Nb = NULL THEN "Nb"
  ELSE "none"

\* The three M_solver.Mult calls of Mult: 278, 291, 302.
MultSolves == {"current", "flux", "vorticity"}

\* M_solver.Mult(b, x): the solution when the iteration converges; when it
\* stops at its iteration cap the solver keeps its last iterate, clears its
\* converged flag and returns.
MSolve(which, failed, iterate, b, x0) ==
  IF which = failed THEN iterate ELSE CGSolve(Mmat, b, x0)

\* Variant: the flux derivative is written into the psi view of the input.
VxAfterMultWritten(vx, dpsi_dt) == [vx EXCEPT !.psi = dpsi_dt]

\* vx is const; its views phi, psi, w are only read (236-238, 282, 294).
VxAfterMult(vx, dpsi_dt) == vx

\* Variant: the phi block of the output is not written.
DphiAfterMultKept(dphi0) == dphi0

\* 234: dvx_dt = 0.0 zeroes the whole output; nothing writes dphi_dt after it.
DphiAfterMult(dphi0) == ZeroVec

\* The body of Mult; failed is the solve that does not converge ("none": all
\* converge) and iterate what that solve leaves in its output.  GetConverged()
\* is not read: the call returns to its caller either way.
MultBody(vx, dphi0, failed, iterate) ==
  LET psiGf == GfPsi(gfT, vx)
      J == IF failed = "current" THEN iterate
           ELSE RecoverCurrent(psiGf, j, ess_tdof_list)
      nv == MultNv(Nv, vx)
      nb == MultNb(Nb, vx)
      zpsi == FluxRHS(nv, vx.psi, resistivity, E0Vec, ess_tdof_list)
      dpsi_dt == MSolve("flux", failed, iterate, zpsi, ZeroVec)
      zw == VorticityRHS(nv, nb, vx.w, J, viscosity, ess_tdof_list)
      dw_dt == MSolve("vorticity", failed, iterate, zw, ZeroVec)
  IN  /\ j' = JAfterMult(j, J)
      /\ ret' = Return("Mult", IF failed = "none" THEN "ok" ELSE "unconverged",
                  [vx |-> vx, psiForJ |-> psiGf, J |-> J,
                   jBefore |-> j, NvUsed |-> nv, NbUsed |-> nb,
                   failed |-> failed,
                   vxAfter |-> VxAfterMult(vx, dpsi_dt),
                   dphi0 |-> dphi0,
                   rhs |-> [psi |-> zpsi, w |-> zw],
                   applied |-> [DSl |-> AppliesDiffusion(resistivity),
                                DRe |-> AppliesDiffusion(viscosity),
                                E0Vec |-> E0Vec],
                   dvx_dt |-> [phi |-> DphiAfterMult(dphi0),
                               psi |-> dpsi_dt, w |-> dw_dt]])
      /\ UNCHANGED <<cfgVars, lifeVars, rsVars, Nv, Nb, E0Vec, E0VecOld, gfT, proc>>

\* Every solve converges.
MultReturns(vx, dphi0) == MultBody(vx, dphi0, "none", ZeroVec)

\* What a solve that stops at its iteration cap leaves in its output.
IterateInputs == FieldInputs \ {ZeroVec}

\* One of the solves stops at its iteration cap.
MultUnconverged(vx, dphi0) ==
  \E failed \in MultSolves, iterate \in IterateInputs :
    MultBody(vx, dphi0, failed, iterate)

\* A null pointer is dereferenced: undefined behaviour.  The process is killed
\* (SIGSEGV) or the call comes back with an output nobody computed.
MultUndefined(vx) ==
  \/ /\ proc' = "crashed"
     /\ ret' = Return("Mult", "segv", [deref |-> MultNullDeref])
     /\ UNCHANGED <<cfgVars, lifeVars, rsVars, opVars>>
  \/ \E garbage \in DvInputs :
       /\ ret' = Return("Mult", "returned",
                   [deref |-> MultNullDeref, dvx_dt |-> garbage])
       /\ UNCHANGED <<cfgVars, lifeVars, rsVars, opVars, proc>>

\* dphi0: what the phi block of dvx_dt holds when the call is made.
Mult ==
  \E vx \in StateVecs, dphi0 \in FieldInputs :
    /\ Idle
    /\ IF MultNullDeref = "none"
       THEN MultReturns(vx, dphi0) \/ MultUnconverged(vx, dphi0)
       ELSE MultUndefined(vx)

\* The caller takes the output vector; it goes out of scope.
Consume ==
  /\ proc = "running"
  /\ Pending
  /\ ret' = Return("Consume", "ok", <<>>)
  /\ UNCHANGED <<cfgVars, lifeVars, rsVars, opVars, proc>>

Next ==
  \/ Consume
  \/ assembleNv
  \/ assembleNb
  \/ BindingGF
  \/ DriverWrite
  \/ SetRHSEfield
  \/ SetInitialJ
  \/ Mult

Spec == Init /\ [][Next]_vars

\* --------------------------------- UpdatePhi, DestroyHypre and destruction
\* Determinant by expansion along the first row (A: rows of rationals).
Minor(A, c) ==
  [i \in 1..(Len(A) - 1) |->
     [k \in 1..(Len(A) - 1) |-> A[i + 1][IF k < c THEN k ELSE k + 1]]]

RECURSIVE Det(_)
Det(A) ==
  IF Len(A) = 1 THEN A[1][1]
  ELSE RSum([c \in 1..Len(A) |->
               RMul(R(IF c % 2 = 1 THEN 1 ELSE -1),
                    RMul(A[1][c], Det(Minor(A, c))))], Len(A))

\* K_solver.Mult(b, x), converged: the solution of A x = b (Cramer's rule).
KSolve(A, b, x0) ==
  LET d == Det(A)
      Ab(c) == [i \in Dofs |-> [k \in Dofs |-> IF k = c THEN b[i] ELSE A[i][k]]]
  IN  Vec([c \in Dofs |-> RDiv(Det(Ab(c)), d)])

\* Variant: the essential rows of the right-hand side are not zeroed.
UpdatePhiRHSUnconstrained(w, ess) == VNeg(MatVec(Mmat, w))

\* 353-355: z = -Mmat*w, essential rows zeroed.
UpdatePhiRHS(w, ess) == SetSubVector(VNeg(MatVec(Mmat, w)), ess, R(0))

\* 350, 357-360: the solver writes through the view phi of vx.
UpdatePhiWrite(vx, sol) == [vx EXCEPT !.phi = sol]

\* 346-361.  With useAMG the solver is K_pcg, preconditioned by K_amg.
UpdatePhi ==
  \E vx \in StateVecs :
    /\ Idle
    /\ LET z == UpdatePhiRHS(vx.w, ess_tdof_list)
           afterFree == useAMG /\ hypre.released > 0
       IN  /\ ret' = Return("UpdatePhi", IF afterFree THEN "segv" ELSE "ok",
                       [vx |-> vx, rhs |-> z,
                        solver |-> IF useAMG THEN "K_pcg" ELSE "K_solver",
                        vxAfter |-> UpdatePhiWrite(vx, KSolve(Kmat, z, vx.phi))])
           /\ hypre' = [hypre EXCEPT
                 !.usedAfterRelease = @ \/ afterFree,
                 !.solvesAfterDestroy =
                    IF hypre.destroyCalls > 0 THEN 1 ELSE @]
           /\ proc' = IF afterFree THEN "crashed" ELSE proc
    /\ UNCHANGED <<cfgVars, opVars, rsVars, live, useAMG, K_amg>>

\* The driver calls DestroyHypre before the hypre backend is finalised; the
\* number of calls the model follows.
MaxDestroyHypre == 2

\* 363-367: delete K_amg; the pointer keeps its value.  Deleting a null
\* pointer releases nothing; deleting a pointer again releases it again.
DestroyHypre ==
  /\ Idle
  /\ hypre.destroyCalls < MaxDestroyHypre
  /\ hypre' = [hypre EXCEPT
        !.destroyCalls = @ + 1,
        !.released = IF K_amg = NULL THEN @ ELSE @ + 1]
  /\ ret' = Return("DestroyHypre", "ok", <<>>)
  /\ UNCHANGED <<cfgVars, opVars, rsVars, live, useAMG, K_amg, proc>>

\* delete p in the destructor: a null pointer releases nothing.
LiveAfterDelete(p, n) == IF p = NULL THEN n ELSE n - 1

\* 370-387: the destructor deletes Nv and Nb (and M, K, KB, E0, E0Vec, Sw,
\* K_pcg); delete K_amg is commented out.  The object is gone afterwards.
Destroy ==
  /\ Idle
  /\ live' = [Nv |-> LiveAfterDelete(Nv, live.Nv),
              Nb |-> LiveAfterDelete(Nb, live.Nb)]
  /\ proc' = "destroyed"
  /\ ret' = Return("~ResistiveMHDOperator", "ok", <<>>)
  /\ UNCHANGED <<cfgVars, opVars, rsVars, useAMG, K_amg, hypre>>

NextLifecycle ==
  \/ assembleNv
  \/ assembleNb
  \/ UpdatePhi
  \/ DestroyHypre
  \/ Destroy

SpecLifecycle == Init /\ [][NextLifecycle]_vars

\* ------------------------------------------------- ReducedSystemOperator
\* The constructor (389-405) initialises neither Nv nor Nb: each holds whatever
\* the memory held, null or a wild address.
WILD == Ptr([coef |-> ZeroVec, wild |-> TRUE])
Inst(coef) == Ptr([coef |-> coef, wild |-> FALSE])

\* The reduced system as constructed for an operator with non-zero transport
\* coefficients: DSl_, DRe_ and the forcing are passed or null.
InitImplicit ==
  /\ ess_tdof_list \in EssChoices
  /\ viscosity \in Coeffs \ {0}
  /\ resistivity \in Coeffs \ {0}
  /\ Nv = NULL /\ Nb = NULL /\ E0Vec = NULL /\ E0VecOld = NULL /\ gfT = NULL
  /\ ConstructedHeap
  /\ j \in FieldInputs
  /\ rDSl \in {NULL, Ptr(resistivity)}
  /\ rDRe \in {NULL, Ptr(viscosity)}
  /\ rE0Vec \in {NULL} \cup {Ptr(f) : f \in FieldInputs \ {ZeroVec}}
  /\ j0 = NULL
  /\ rs_dt = 0
  /\ rs_x = NULL
  /\ rNv \in {NULL, WILD}
  /\ rNb \in {NULL, WILD}
  /\ solve = NULL
  /\ proc = "running"
  /\ ret = Return("ctor", "ok", <<>>)

\* SetCurrent(gf): j0 = gf, the operator's current field.
SetCurrent ==
  /\ Idle
  /\ j0' = Ptr("j")
  /\ ret' = Return("SetCurrent", "ok", <<>>)
  /\ UNCHANGED <<cfgVars, lifeVars, opVars, rsCfgVars, rs_dt, rs_x, rNv, rNb, solve, proc>>

\* delete slot; slot = new ParBilinearForm assembled with coef (420-426, 428-434).
DeleteThenNew(slot, old, coef) ==
  [ptr |-> Inst(coef),
   heap |-> <<[ev |-> "delete", slot |-> slot, p |-> old],
              [ev |-> "new", slot |-> slot, p |-> Inst(coef)]>>]

\* Variant: an existing Nv is kept instead of being reassembled.
ReducedNvCoefStale(old, k) ==
  IF old \in {NULL, WILD} THEN k.phi ELSE Deref(old).coef

\* 421-425: phiGf views the phi block of the iterate k; Nv is assembled from it.
ReducedNvCoef(old, k) == k.phi
\* 429-433: psiGf views the psi block of the iterate k; Nb is assembled from it.
ReducedNbCoef(old, k) == k.psi

\* 443-445
ResidualY1(phiNew, wNew, ess) ==
  LET y1a == MatVec(FormSystemMatrix(Kform, ess), phiNew)
      y1b == TrueAddMult(FormSystemMatrix(Mform, ess), wNew, y1a)
  IN  SetSubVector(y1b, ess, R(0))

\* 448-456.  Line 455 adds the forcing to the scratch vector z, which is not
\* read again before line 459 overwrites it: y2 does not receive it.
ResidualY2(nv, psiNew, psi0, dt, dsl, e0, ess) ==
  LET z == VDiv(VSub(psiNew, psi0), R(dt))
      y2a == MatVec(FormSystemMatrix(Mform, ess), z)
      y2b == TrueAddMult(Conv(nv), psiNew, y2a)
      y2c == IF dsl # NULL
             THEN TrueAddMult(DiffForm(Deref(dsl)), psiNew, y2b) ELSE y2b
      z2 == IF e0 # NULL THEN VAdd(z, Deref(e0)) ELSE z
  IN  SetSubVector(y2c, ess, R(0))

\* Variant: y3 without the final SetSubVector on the essential dofs.
ResidualY3Unconstrained(nv, nb, wNew, w0, dt, dre, J, ess) ==
  LET z == VDiv(VSub(wNew, w0), R(dt))
      y3a == MatVec(FormSystemMatrix(Mform, ess), z)
      y3b == TrueAddMult(Conv(nv), wNew, y3a)
      y3c == IF dre # NULL
             THEN TrueAddMult(DiffForm(Deref(dre)), wNew, y3b) ELSE y3b
  IN  TrueAddMult(Conv(nb), J, y3c)

\* 459-466.  Line 465 adds Nb*J.
ResidualY3(nv, nb, wNew, w0, dt, dre, J, ess) ==
  LET z == VDiv(VSub(wNew, w0), R(dt))
      y3a == MatVec(FormSystemMatrix(Mform, ess), z)
      y3b == TrueAddMult(Conv(nv), wNew, y3a)
      y3c == IF dre # NULL
             THEN TrueAddMult(DiffForm(Deref(dre)), wNew, y3b) ELSE y3b
      y3d == TrueAddMult(Conv(nb), J, y3c)
  IN  SetSubVector(y3d, ess, R(0))

\* What is undefined in an evaluation: deleting a wild pointer (420, 428),
\* reading through the unset j0 (439) or the unset phi, psi, w (448, 459).
ReducedMultUndefined ==
  IF rNv = WILD \/ rNb = WILD THEN "delete"
  ELSE IF j0 = NULL THEN "j0"
  ELSE IF rs_x = NULL THEN "x"
  ELSE "none"

ReducedMultReturns(k) ==
  LET nvNew == DeleteThenNew("Nv", rNv, ReducedNvCoef(rNv, k))
      nbNew == DeleteThenNew("Nb", rNb, ReducedNbCoef(rNb, k))
      nv == Deref(nvNew.ptr).coef
      nb == Deref(nbNew.ptr).coef
      J == RecoverCurrent(k.psi, j, ess_tdof_list)
      x0 == Deref(rs_x)
      y1 == ResidualY1(k.phi, k.w, ess_tdof_list)
      y2 == ResidualY2(nv, k.psi, x0.psi, rs_dt, rDSl, rE0Vec, ess_tdof_list)
      y3 == ResidualY3(nv, nb, k.w, x0.w, rs_dt, rDRe, J, ess_tdof_list)
  IN  /\ rNv' = nvNew.ptr
      /\ rNb' = nbNew.ptr
      /\ ret' = Return("ReducedMult", "ok",
                  [k |-> k, y |-> [y1 |-> y1, y2 |-> y2, y3 |-> y3], J |-> J,
                   NvUsed |-> nv, NbUsed |-> nb, oldNv |-> rNv, oldNb |-> rNb,
                   heap |-> nvNew.heap \o nbNew.heap])
      /\ UNCHANGED <<cfgVars, lifeVars, opVars, rsCfgVars, j0, rs_dt, rs_x, solve, proc>>

ReducedMultCrashes ==
  /\ proc' = "crashed"
  /\ ret' = Return("ReducedMult", "segv", [undefined |-> ReducedMultUndefined])
  /\ UNCHANGED <<cfgVars, lifeVars, opVars, rsVars>>

\* Variant: once SetParameters has run, the residual is also evaluated when no
\* ImplicitSolve is running.
ResidualCalledAnytime(call) == rs_x # NULL

\* 316: the residual is evaluated by pnewton_solver->Mult only, which runs
\* inside ImplicitSolve, where the views phi, psi, w (310-312) are in scope.
ResidualCalledInSolve(call) == call # NULL

\* ReducedSystemOperator::Mult(k, y) (407-467), called by the Newton solver
\* with its iterate k while ImplicitSolve is in progress.
NewtonEval ==
  \E k \in StateVecs :
    /\ proc = "running" /\ ~Pending /\ ResidualCalledInSolve(solve)
    /\ \/ ReducedMultUndefined = "none" /\ ReducedMultReturns(k)
       \/ ReducedMultUndefined = "delete" /\ j0 # NULL /\ ReducedMultReturns(k)
       \/ ReducedMultUndefined # "none" /\ ReducedMultCrashes

\* ------------------------------------------------- ImplicitSolve (306-323)
DtInputs == {1, MaxDt}
BlockSub(u, v) == [phi |-> VSub(u.phi, v.phi), psi |-> VSub(u.psi, v.psi),
                   w |-> VSub(u.w, v.w)]
BlockDiv(u, c) == [phi |-> VDiv(u.phi, c), psi |-> VDiv(u.psi, c),
                   w |-> VDiv(u.w, c)]

\* 310-316: the views of vx are handed to the reduced system and the Newton
\* solver is started on it.
ImplicitSolveBegin ==
  \E dt \in DtInputs, vx \in StateVecs :
    /\ Idle
    /\ rs_dt' = dt
    /\ rs_x' = Ptr([phi |-> vx.phi, psi |-> vx.psi, w |-> vx.w])
    /\ solve' = Ptr([dt |-> dt, vx |-> vx, calls |-> 1])
    /\ ret' = Return("SetParameters", "ok", <<>>)
    /\ UNCHANGED <<cfgVars, lifeVars, opVars, rsCfgVars, j0, rNv, rNb, proc>>

\* Variant: the converged flag is not looked at.
VerifyConvergedSkipped(converged) == TRUE

\* 317: MFEM_VERIFY(pnewton_solver->GetConverged(), ...) lets the call go on.
VerifyConverged(converged) == converged

\* Variant: the difference is not divided by dt.
BackwardEulerKUndivided(k, vx, dt) == BlockSub(k, vx)

\* 321-322: k -= vx; k /= dt.
BackwardEulerK(k, vx, dt) == BlockDiv(BlockSub(k, vx), R(dt))

\* 316-322: the Newton solver comes back with k = the new state and its
\* converged flag; the flag is verified and k is turned into the increment.
ImplicitSolveEnd ==
  \E converged \in BOOLEAN, xnew \in StateVecs :
    /\ proc = "running" /\ ~Pending /\ solve # NULL
    /\ LET call == Deref(solve) IN
         IF VerifyConverged(converged)
         THEN /\ ret' = Return("ImplicitSolve", "ok",
                          [call |-> call, converged |-> converged,
                           xnew |-> xnew, vxAfter |-> call.vx,
                           k |-> BackwardEulerK(xnew, call.vx, call.dt)])
              /\ proc' = proc
         ELSE /\ ret' = Return("ImplicitSolve", "abort",
                          [call |-> call, converged |-> converged,
                           xnew |-> xnew, vxAfter |-> call.vx, k |-> xnew])
              /\ proc' = "aborted"
    /\ solve' = NULL
    /\ UNCHANGED <<cfgVars, lifeVars, opVars, rsCfgVars, j0, rs_dt, rs_x, rNv, rNb>>

NextImplicit ==
  \/ Consume
  \/ SetCurrent
  \/ ImplicitSolveBegin
  \/ NewtonEval
  \/ ImplicitSolveEnd

SpecImplicit == InitImplicit /\ [][NextImplicit]_vars

\* ------------------------------------------------------------- properties
VScale(v, c) == Vec([i \in Dofs |-> RMul(v[i], c)])
BlockAdd(u, v) == [phi |-> VAdd(u.phi, v.phi), psi |-> VAdd(u.psi, v.psi),
                   w |-> VAdd(u.w, v.w)]
BlockScale(u, c) == [phi |-> VScale(u.phi, c), psi |-> VScale(u.psi, c),
                     w |-> VScale(u.w, c)]
Interior == Dofs \ ess_tdof_list

ImplicitSolveDone == ret.op = "ImplicitSolve"
ResidualDone == ret.op = "ReducedMult" /\ ret.status = "ok"
MultDone == ret.op = "Mult" /\ ret.status = "ok"

\* C1: an ImplicitSolve call starts the Newton solver once; it returns
\* normally only if the solver converged; when the solver did not converge
\* the call ends in mfem_error, nothing is retried and k is left as the solver
\* left it (k <- (k - x)/dt is not applied).
C1_FatalOnNonConvergence ==
  /\ ImplicitSolveDone =>
       /\ ret.out.call.calls = 1
       /\ ret.status = "ok" => ret.out.converged
       /\ ~ret.out.converged =>
            /\ ret.status = "abort"
            /\ proc = "aborted"
            /\ ret.out.k = ret.out.xnew
  /\ proc = "aborted" => ImplicitSolveDone /\ solve = NULL

C1_Witness ==
  /\ ImplicitSolveDone
  /\ ret.status = "abort"
  /\ BackwardEulerK(ret.out.xnew, ret.out.call.vx, ret.out.call.dt)
       # ret.out.xnew

\* C2: when the Newton solve converges to x_new, the k returned satisfies
\* x + dt*k = x_new in all three blocks, and x is as it was before the call.
C2_BackwardEulerIncrement ==
  (ImplicitSolveDone /\ ret.status = "ok") =>
     /\ BlockAdd(ret.out.call.vx, BlockScale(ret.out.k, R(ret.out.call.dt)))
          = ret.out.xnew
     /\ ret.out.vxAfter = ret.out.call.vx

C2_Witness ==
  /\ ImplicitSolveDone
  /\ ret.status = "ok"
  /\ ret.out.call.dt # 1
  /\ ret.out.xnew.phi # ret.out.call.vx.phi
  /\ ret.out.xnew.psi # ret.out.call.vx.psi
  /\ ret.out.xnew.w # ret.out.call.vx.w

\* C3: after a residual evaluation the entries of y1, y2 and y3 at every
\* essential dof are zero.
C3_EssentialRowsZero ==
  ResidualDone =>
    \A i \in ess_tdof_list :
      /\ ret.out.y.y1[i] = R(0)
      /\ ret.out.y.y2[i] = R(0)
      /\ ret.out.y.y3[i] = R(0)

C3_Witness ==
  /\ ResidualDone
  /\ \E i \in ess_tdof_list :
       /\ ret.out.k.phi[i] # R(0)
       /\ ret.out.k.psi[i] # R(0)
       /\ ret.out.k.w[i] # R(0)
  /\ ret.out.y.y2 # ZeroVec
  /\ ret.out.y.y3 # ZeroVec

\* C4: the Nv and Nb a residual evaluation applies are assembled in that
\* evaluation from the phi and psi blocks of its iterate; the instance of the
\* previous evaluation is deleted before the new one is created.
C4_ConvectionFromIterate ==
  ResidualDone =>
    /\ ret.out.NvUsed = ret.out.k.phi
    /\ ret.out.NbUsed = ret.out.k.psi
    /\ rNv = Inst(ret.out.k.phi)
    /\ rNb = Inst(ret.out.k.psi)
    /\ \A a, b \in DOMAIN ret.out.heap :
         (/\ ret.out.heap[a].ev = "new"
          /\ ret.out.heap[b].ev = "delete"
          /\ ret.out.heap[a].slot = ret.out.heap[b].slot) => b < a
    /\ \E b \in DOMAIN ret.out.heap :
         ret.out.heap[b] = [ev |-> "delete", slot |-> "Nv", p |-> ret.out.oldNv]
    /\ \E b \in DOMAIN ret.out.heap :
         ret.out.heap[b] = [ev |-> "delete", slot |-> "Nb", p |-> ret.out.oldNb]

C4_Witness ==
  /\ ResidualDone
  /\ ret.out.oldNv \notin {NULL, WILD}
  /\ ret.out.oldNb \notin {NULL, WILD}
  /\ Deref(ret.out.oldNv).coef # ret.out.k.phi
  /\ Deref(ret.out.oldNb).coef # ret.out.k.psi

\* C5 as claimed: every explicit Mult applies an Nv and an Nb created for that
\* call from the state vector passed to it.
C5_Claim ==
  MultDone =>
    /\ ret.out.NvUsed = ret.out.vx.phi
    /\ ret.out.NbUsed = ret.out.vx.psi

\* A Mult call that has applied an Nv and an Nb assembled for another state.
C5_Witness ==
  /\ MultDone
  /\ ret.out.NvUsed # ret.out.vx.phi
  /\ ret.out.NbUsed # ret.out.vx.psi

\* C6 as claimed: on every non-essential row
\* y3 = M*(wNew - w)/dt + Nv*wNew + DRe*wNew - Nb*J.
ClaimedY3 ==
  LET z == VDiv(VSub(ret.out.k.w, Deref(rs_x).w), R(rs_dt))
      a == MatVec(Mform, z)
      b == VAdd(a, MatVec(Conv(ret.out.k.phi), ret.out.k.w))
      c == VAdd(b, MatVec(DiffForm(Deref(rDRe)), ret.out.k.w))
  IN  VSub(c, MatVec(Conv(ret.out.k.psi), ret.out.J))

C6_Claim ==
  (ResidualDone /\ rDRe # NULL) =>
     \A i \in Interior : ret.out.y.y3[i] = ClaimedY3[i]

\* A residual evaluation with viscosity whose Nb*J is non-zero off the boundary.
C6_Witness ==
  /\ ResidualDone
  /\ rDRe # NULL
  /\ \E i \in Interior :
       MatVec(Conv(ret.out.k.psi), ret.out.J)[i] # R(0)

\* C7 as claimed: on every non-essential row
\* y2 = M*(psiNew - psi)/dt + Nv*psiNew + DSl*psiNew, plus the forcing when one
\* is configured.
UnforcedY2 ==
  LET z == VDiv(VSub(ret.out.k.psi, Deref(rs_x).psi), R(rs_dt))
      a == MatVec(Mform, z)
      b == VAdd(a, MatVec(Conv(ret.out.k.phi), ret.out.k.psi))
  IN  VAdd(b, MatVec(DiffForm(Deref(rDSl)), ret.out.k.psi))

C7_Claim ==
  (ResidualDone /\ rDSl # NULL) =>
     \A i \in Interior :
       ret.out.y.y2[i] =
         IF rE0Vec = NULL THEN UnforcedY2[i]
         ELSE RAdd(UnforcedY2[i], Deref(rE0Vec)[i])

\* A residual evaluation with a forcing that is non-zero off the boundary.
C7_Witness ==
  /\ ResidualDone
  /\ rDSl # NULL
  /\ rE0Vec # NULL
  /\ \E i \in Interior : Deref(rE0Vec)[i] # R(0)

\* C8 as claimed: the current of a Mult call is recovered from the psi block of
\* the vector passed to that call.
C8_Claim == MultDone => ret.out.psiForJ = ret.out.vx.psi

\* A Mult call on a vector other than the one gf references.
C8_Witness ==
  /\ MultDone
  /\ ret.out.psiForJ # ret.out.vx.psi
  /\ ret.out.J # RecoverCurrent(ret.out.vx.psi, ret.out.jBefore, ess_tdof_list)

\* C9 as claimed: after a Mult call the stored field j is the current
\* recovered from that call's psi.
C9_Claim ==
  (MultDone /\ ret.out.psiForJ = ret.out.vx.psi) => j = ret.out.J

\* C9 amended: a Mult call leaves the stored field j as it was; the current it
\* recovers is the local J, equal to j on the essential dofs and solving
\* M*J = -KB*psi on the others, psi being the field gf references.
C9_StoredCurrentKept ==
  MultDone =>
    /\ j = ret.out.jBefore
    /\ \A i \in ess_tdof_list : ret.out.J[i] = j[i]
    /\ \A i \in Interior :
         RAdd(MatVec(Mform, ret.out.J)[i], MatVec(KBform, ret.out.psiForJ)[i])
           = RSum([e \in Dofs |->
                     IF e \in ess_tdof_list
                     THEN RMul(Mform[i][e], RSub(ret.out.J[e], j[e]))
                     ELSE R(0)], NDofs)

C9_Witness ==
  /\ MultDone
  /\ ret.out.psiForJ # ZeroVec
  /\ ret.out.J # j
  /\ ess_tdof_list # {}

\* C10 as claimed: Mult on an operator whose Nv or Nb is still null ends in a
\* reported error, without dereferencing the null pointer.
C10_Claim ==
  (ret.op = "Mult" /\ gfT # NULL /\ (Nv = NULL \/ Nb = NULL)) =>
     ret.status = "error"

\* A Mult call entered with gf bound and Nv or Nb null.
C10_Witness ==
  /\ ret.op = "Mult"
  /\ gfT # NULL
  /\ ret.status \in {"segv", "returned"}
  /\ ret.out.deref \in {"Nv", "Nb"}

\* A Mult call that came back to its caller: every pointer it went through was
\* set, whether or not its solves converged.
MultCameBack == ret.op = "Mult" /\ ret.status \in {"ok", "unconverged"}

\* C11 as claimed: when one of the three mass-matrix solves of Mult does not
\* converge, the call does not return normally: the process is stopped by a
\* reported error.
C11_Claim ==
  (MultCameBack /\ ret.out.failed \in MultSolves) => proc = "aborted"

\* A Mult call whose flux solve did not converge and whose caller holds, as
\* dpsi_dt, an iterate that is not the solution of the flux system.
C11_Witness ==
  /\ MultCameBack
  /\ ret.out.failed = "flux"
  /\ proc = "running"
  /\ ret.out.dvx_dt.psi # CGSolve(Mmat, ret.out.rhs.psi, ZeroVec)

\* C12: Mult applies DSl only when resistivity is not 0.0 and DRe only when
\* viscosity is not 0.0; with both zero and no forcing the right-hand sides are
\* -Nv*psi and -Nv*w + Nb*J on every non-essential row.
C12_DiffusionSkippedAtZero ==
  MultCameBack =>
    /\ ret.out.applied.DSl <=> resistivity # 0
    /\ ret.out.applied.DRe <=> viscosity # 0
    /\ (resistivity = 0 /\ viscosity = 0 /\ E0Vec = NULL) =>
         \A i \in Interior :
           /\ ret.out.rhs.psi[i]
                = RNeg(MatVec(Conv(ret.out.NvUsed), ret.out.vx.psi)[i])
           /\ ret.out.rhs.w[i]
                = RSub(MatVec(Conv(ret.out.NbUsed), ret.out.J)[i],
                       MatVec(Conv(ret.out.NvUsed), ret.out.vx.w)[i])

C12_Witness ==
  /\ MultDone
  /\ resistivity = 0 /\ viscosity = 0 /\ E0Vec = NULL
  /\ ~ret.out.applied.DSl /\ ~ret.out.applied.DRe
  /\ \E i \in Interior :
       /\ ret.out.rhs.psi[i] # R(0)
       /\ ret.out.rhs.w[i] # R(0)
       /\ MatVec(Kform, ret.out.vx.psi)[i] # R(0)
       /\ MatVec(Kform, ret.out.vx.w)[i] # R(0)

\* C13: the state vector passed to Mult has the same phi, psi and w blocks
\* after the call as before it, and so has the psi block gf references.
C13_InputKept ==
  MultCameBack =>
    /\ ret.out.vxAfter.phi = ret.out.vx.phi
    /\ ret.out.vxAfter.psi = ret.out.vx.psi
    /\ ret.out.vxAfter.w = ret.out.vx.w
    /\ Deref(gfT) = ret.out.psiForJ

C13_Witness ==
  /\ MultDone
  /\ gfT = Ptr(ret.out.vx.psi)
  /\ ret.out.dvx_dt.psi # ret.out.vx.psi
  /\ ret.out.dvx_dt.w # ret.out.vx.w
  /\ ret.out.vx.phi # ZeroVec

\* C14 as claimed: the phi block of dvx_dt holds after a Mult call what it held
\* before the call.
C14_Claim == MultCameBack => ret.out.dvx_dt.phi = ret.out.dphi0

\* C14 amended: after a Mult call every entry of the phi block of dvx_dt is
\* zero, whatever the block held before the call.
C14_DphiZeroed == MultCameBack => ret.out.dvx_dt.phi = ZeroVec

C14_Witness ==
  /\ MultDone
  /\ ret.out.dphi0 # ZeroVec
  /\ ret.out.dvx_dt.psi # ZeroVec
  /\ ret.out.dvx_dt.w # ZeroVec

\* The flux right-hand side of the Mult call with the forcing e0 (NULL: none).
FluxWithForcing(e0) ==
  LET a == MatVec(Conv(ret.out.NvUsed), ret.out.vx.psi)
      b == IF resistivity # 0
           THEN VAdd(a, MatVec(DiffForm(resistivity), ret.out.vx.psi)) ELSE a
  IN  VNeg(IF e0 = NULL THEN b ELSE VAdd(b, Deref(e0)))

ForcingIsLatest ==
  /\ ret.op = "SetRHSEfield" => E0Vec = Ptr(ret.out.Efield)
  /\ E0Vec = NULL => E0VecOld = NULL
  /\ MultCameBack =>
       /\ ret.out.applied.E0Vec = E0Vec
       /\ \A i \in Interior : ret.out.rhs.psi[i] = FluxWithForcing(E0Vec)[i]

\* C15: the forcing Mult adds to the flux right-hand side is the one the most
\* recent SetRHSEfield call assembled, alone: each call replaces E0Vec by the
\* vector assembled from its argument, only SetRHSEfield changes E0Vec, and
\* while it is null (no call yet) Mult adds no forcing.
C15_LatestForcingAlone ==
  /\ []ForcingIsLatest
  /\ [][E0Vec' # E0Vec => ret'.op = "SetRHSEfield"]_vars

\* A Mult call made after a non-zero forcing was replaced by another one.
C15_Witness ==
  /\ MultDone
  /\ E0Vec # NULL
  /\ E0VecOld # NULL
  /\ E0VecOld # E0Vec
  /\ Deref(E0VecOld) # ZeroVec
  /\ \E i \in Interior :
       FluxWithForcing(E0VecOld)[i] # ret.out.rhs.psi[i]

UpdatePhiDone == ret.op = "UpdatePhi" /\ ret.status = "ok"

LiveAccounted ==
  /\ live.Nv \in {0, 1}
  /\ live.Nb \in {0, 1}
  /\ proc # "destroyed" => /\ (live.Nv = 0) <=> (Nv = NULL)
                           /\ (live.Nb = 0) <=> (Nb = NULL)
  /\ proc = "destroyed" => live = [Nv |-> 0, Nb |-> 0]

\* C17: Nv and Nb are null until their first assembly call (only assembleNv
\* changes Nv, only assembleNb changes Nb); at most one instance of each is
\* live at any time, a pointer is non-null exactly when its instance is live,
\* and after the destructor every instance created has been released, none
\* twice.
C17_OneLiveInstance ==
  /\ []LiveAccounted
  /\ [][/\ Nv' # Nv => ret'.op = "assembleNv"
        /\ Nb' # Nb => ret'.op = "assembleNb"]_vars

\* Both forms were reassembled (a second assembly finds a previous instance)
\* and the operator was then destroyed.
C17_Witness ==
  /\ proc = "destroyed"
  /\ Nv # NULL /\ Nb # NULL
  /\ live = [Nv |-> 0, Nb |-> 0]

ViewsOf(vx) == Ptr([phi |-> vx.phi, psi |-> vx.psi, w |-> vx.w])

====
